---- MODULE Spec2Model ----
(***************************************************************************)
(* The settings store of xdg-portal-settings-minimal                       *)
(* (portal_setting/src/lib.rs): a table from (namespace, key) to a         *)
(* dynamically typed value behind a tokio RwLock, with validated writes,   *)
(* point reads and filtered bulk reads, called by concurrent async tasks.  *)
(*                                                                         *)
(* A definition named after another with a suffix (insert_keep_existing    *)
(* for insert, RwLock_write_with_readers for RwLock_write, ...) is a       *)
(* faulty variant of it: each property below fails when one of them takes  *)
(* the place of the definition it varies.                                  *)
(***************************************************************************)
EXTENDS Integers, Sequences, FiniteSets, TLC

(***************************************************************************)
(* Bounds of the model.                                                    *)
(***************************************************************************)
\* concurrent callers of the store
NumTasks == 2
\* store calls started, all tasks together, in the concurrent specification
MaxCalls == 3
\* store calls started by the single caller of the sequential specification
MaxSeqCalls == 2

Tasks == 1 .. NumTasks

(***************************************************************************)
(* zvariant values: the variants of Value the program builds or tests.     *)
(* An F64 carries an integer n standing for the double n.0.                *)
(***************************************************************************)
U32(n) == [tag |-> "U32", v |-> n]
I32(n) == [tag |-> "I32", v |-> n]
Bool(b) == [tag |-> "Bool", v |-> b]
Str(s) == [tag |-> "Str", v |-> s]
F64(n) == [tag |-> "F64", v |-> n]
Structure(fields) == [tag |-> "Structure", v |-> fields]

\* Value::value_signature: the D-Bus signature of a value
RECURSIVE value_signature(_)
RECURSIVE fields_signature(_)
fields_signature(fields) ==
    IF fields = << >> THEN ""
    ELSE value_signature(Head(fields)) \o fields_signature(Tail(fields))

value_signature(value) ==
    CASE value.tag = "U32" -> "u"
      [] value.tag = "I32" -> "i"
      [] value.tag = "Bool" -> "b"
      [] value.tag = "Str" -> "s"
      [] value.tag = "F64" -> "d"
      [] value.tag = "Structure" -> "(" \o fields_signature(value.v) \o ")"

\* <T>::try_from(&OwnedValue): the payload of the variant of type T, else the
\* error IncorrectType (zvariant converts no other variant)
OkOf(x) == [ok |-> TRUE, v |-> x]
IncorrectType == [ok |-> FALSE]

u32_try_from_any_int(value) ==
    IF value.tag \in { "U32", "I32" } THEN OkOf(value.v) ELSE IncorrectType

u32_try_from(value) == IF value.tag = "U32" THEN OkOf(value.v) ELSE IncorrectType
i32_try_from(value) == IF value.tag = "I32" THEN OkOf(value.v) ELSE IncorrectType
bool_try_from(value) == IF value.tag = "Bool" THEN OkOf(value.v) ELSE IncorrectType

(***************************************************************************)
(* SettingKey and the HashMap operations the store uses.                   *)
(***************************************************************************)
SettingKey(namespace, key) == [namespace |-> namespace, key |-> key]

\* #[derive(PartialEq, Eq, Hash)]: two keys are equal when both fields are
SettingKey_eq_key_only(a, b) == a.key = b.key

SettingKey_eq_namespace_only(a, b) == a.namespace = b.namespace

SettingKey_eq(a, b) == a.namespace = b.namespace /\ a.key = b.key

HashMap_new == [x \in {} |-> x]

\* HashMap<String, _>::insert: adds the entry, or overwrites the value of the key
HashMap_insert(map, k, v) ==
    [x \in (DOMAIN map) \cup {k} |-> IF x = k THEN v ELSE map[x]]

\* HashMap<SettingKey, _>::insert: overwrites the value of an equal key, or adds
\* the entry when no key is equal
insert_keep_existing(map, k, v) ==
    IF \E x \in DOMAIN map : SettingKey_eq(x, k)
    THEN map
    ELSE [x \in (DOMAIN map) \cup {k} |-> IF x = k THEN v ELSE map[x]]

insert(map, k, v) ==
    IF \E x \in DOMAIN map : SettingKey_eq(x, k)
    THEN [x \in DOMAIN map |-> IF SettingKey_eq(x, k) THEN v ELSE map[x]]
    ELSE [x \in (DOMAIN map) \cup {k} |-> IF x = k THEN v ELSE map[x]]

\* Option
Some(v) == [tag |-> "Some", v |-> v]
None == [tag |-> "None"]

\* SettingValue::clone: Value::try_clone makes a deep copy, structurally equal
clone(value) ==
    IF value.tag = "Structure"
    THEN Structure([i \in DOMAIN value.v |-> value.v[i]])
    ELSE [tag |-> value.tag, v |-> value.v]

\* HashMap<SettingKey, _>::get(..).cloned()
get_cloned(map, k) ==
    IF \E x \in DOMAIN map : SettingKey_eq(x, k)
    THEN Some(clone(map[CHOOSE x \in DOMAIN map : SettingKey_eq(x, k)]))
    ELSE None

(***************************************************************************)
(* The schema: namespaces, the 11 known pairs, and the pairs and values    *)
(* the callers of the model use.                                           *)
(***************************************************************************)
APPEARANCE == "org.freedesktop.appearance"
INTERFACE == "org.gnome.desktop.interface"
PRIVACY == "org.gnome.desktop.privacy"
CUSTOM == "com.example.custom"

\* the pairs of the model, in one fixed order: the 11 known pairs in the order
\* new() seeds them, then three pairs no rule covers
PairSeq ==
    << SettingKey(APPEARANCE, "color-scheme"),
       SettingKey(APPEARANCE, "accent-color"),
       SettingKey(APPEARANCE, "contrast"),
       SettingKey(INTERFACE, "gtk-theme"),
       SettingKey(INTERFACE, "icon-theme"),
       SettingKey(INTERFACE, "cursor-theme"),
       SettingKey(INTERFACE, "font-name"),
       SettingKey(INTERFACE, "monospace-font-name"),
       SettingKey(INTERFACE, "clock-format"),
       SettingKey(PRIVACY, "remember-recent-files"),
       SettingKey(PRIVACY, "recent-files-max-age"),
       SettingKey(CUSTOM, "anything"),
       SettingKey(CUSTOM, "color-scheme"),
       SettingKey(APPEARANCE, "anything") >>

AllPairs == { PairSeq[i] : i \in DOMAIN PairSeq }
KnownPairs == { PairSeq[i] : i \in 1 .. 11 }
UnknownPairs == AllPairs \ KnownPairs

\* the values the sequential caller passes to write: every type the rules
\* name, the values around the two range limits, and types no rule accepts
AllValues ==
    { U32(0), U32(1), U32(2), U32(3), U32(5),
      I32(1),
      Bool(FALSE),
      Str("invalid"),
      F64(0),
      Structure(<< F64(1), F64(0), F64(0) >>),
      Structure(<< F64(0), F64(0) >>) }

(***************************************************************************)
(* SettingsStore::new: the table after the 11 seeding inserts.             *)
(***************************************************************************)
new_without_contrast ==
    LET s1 == insert(HashMap_new, SettingKey(APPEARANCE, "color-scheme"), U32(0))
        s2 == insert(s1, SettingKey(APPEARANCE, "accent-color"),
                     Structure(<< F64(0), F64(0), F64(0) >>))
        s4 == insert(s2, SettingKey(INTERFACE, "gtk-theme"), Str("Adwaita"))
        s5 == insert(s4, SettingKey(INTERFACE, "icon-theme"), Str("Adwaita"))
        s6 == insert(s5, SettingKey(INTERFACE, "cursor-theme"), Str("Adwaita"))
        s7 == insert(s6, SettingKey(INTERFACE, "font-name"), Str("Cantarell 11"))
        s8 == insert(s7, SettingKey(INTERFACE, "monospace-font-name"),
                     Str("Source Code Pro 10"))
        s9 == insert(s8, SettingKey(INTERFACE, "clock-format"), Str("24h"))
        s10 == insert(s9, SettingKey(PRIVACY, "remember-recent-files"), Bool(TRUE))
    IN  insert(s10, SettingKey(PRIVACY, "recent-files-max-age"), I32(30))

new ==
    LET s1 == insert(HashMap_new, SettingKey(APPEARANCE, "color-scheme"), U32(0))
        s2 == insert(s1, SettingKey(APPEARANCE, "accent-color"),
                     Structure(<< F64(0), F64(0), F64(0) >>))
        s3 == insert(s2, SettingKey(APPEARANCE, "contrast"), U32(0))
        s4 == insert(s3, SettingKey(INTERFACE, "gtk-theme"), Str("Adwaita"))
        s5 == insert(s4, SettingKey(INTERFACE, "icon-theme"), Str("Adwaita"))
        s6 == insert(s5, SettingKey(INTERFACE, "cursor-theme"), Str("Adwaita"))
        s7 == insert(s6, SettingKey(INTERFACE, "font-name"), Str("Cantarell 11"))
        s8 == insert(s7, SettingKey(INTERFACE, "monospace-font-name"),
                     Str("Source Code Pro 10"))
        s9 == insert(s8, SettingKey(INTERFACE, "clock-format"), Str("24h"))
        s10 == insert(s9, SettingKey(PRIVACY, "remember-recent-files"), Bool(TRUE))
    IN  insert(s10, SettingKey(PRIVACY, "recent-files-max-age"), I32(30))

(***************************************************************************)
(* SettingsStore::validate_setting: Ok, or the error of the first rule     *)
(* the value fails; a pair no arm matches is accepted.                     *)
(***************************************************************************)
Ok == [tag |-> "Ok"]
Err(msg) == [tag |-> "Err", msg |-> msg]

validate_setting_contrast_upto_2(namespace, key, value) ==
    CASE namespace = APPEARANCE /\ key = "color-scheme" ->
            IF u32_try_from(value).ok /\ u32_try_from(value).v <= 2
            THEN Ok ELSE Err("color-scheme must be u32 (0-2)")
      [] namespace = APPEARANCE /\ key = "accent-color" ->
            IF value_signature(value) = "(ddd)"
            THEN Ok ELSE Err("accent-color must be (f64, f64, f64) tuple")
      [] namespace = APPEARANCE /\ key = "contrast" ->
            IF u32_try_from(value).ok /\ u32_try_from(value).v <= 2
            THEN Ok ELSE Err("contrast must be u32 (0-1)")
      [] namespace = INTERFACE
           /\ key \in { "gtk-theme", "icon-theme", "cursor-theme", "font-name",
                        "monospace-font-name" } ->
            IF value_signature(value) = "s"
            THEN Ok ELSE Err(key \o " must be a string")
      [] namespace = INTERFACE /\ key = "clock-format" ->
            IF value_signature(value) = "s"
            THEN Ok ELSE Err("clock-format must be '12h' or '24h'")
      [] namespace = PRIVACY /\ key = "remember-recent-files" ->
            IF bool_try_from(value).ok
            THEN Ok ELSE Err("remember-recent-files must be a boolean")
      [] namespace = PRIVACY /\ key = "recent-files-max-age" ->
            IF i32_try_from(value).ok
            THEN Ok ELSE Err("recent-files-max-age must be an i32")
      [] OTHER -> Ok

validate_setting_rejecting_unknown(namespace, key, value) ==
    CASE namespace = APPEARANCE /\ key = "color-scheme" ->
            IF u32_try_from(value).ok /\ u32_try_from(value).v <= 2
            THEN Ok ELSE Err("color-scheme must be u32 (0-2)")
      [] namespace = APPEARANCE /\ key = "accent-color" ->
            IF value_signature(value) = "(ddd)"
            THEN Ok ELSE Err("accent-color must be (f64, f64, f64) tuple")
      [] namespace = APPEARANCE /\ key = "contrast" ->
            IF u32_try_from(value).ok /\ u32_try_from(value).v <= 1
            THEN Ok ELSE Err("contrast must be u32 (0-1)")
      [] namespace = INTERFACE
           /\ key \in { "gtk-theme", "icon-theme", "cursor-theme", "font-name",
                        "monospace-font-name" } ->
            IF value_signature(value) = "s"
            THEN Ok ELSE Err(key \o " must be a string")
      [] namespace = INTERFACE /\ key = "clock-format" ->
            IF value_signature(value) = "s"
            THEN Ok ELSE Err("clock-format must be '12h' or '24h'")
      [] namespace = PRIVACY /\ key = "remember-recent-files" ->
            IF bool_try_from(value).ok
            THEN Ok ELSE Err("remember-recent-files must be a boolean")
      [] namespace = PRIVACY /\ key = "recent-files-max-age" ->
            IF i32_try_from(value).ok
            THEN Ok ELSE Err("recent-files-max-age must be an i32")
      [] OTHER -> Err("unknown setting")

validate_setting_clock_format_values(namespace, key, value) ==
    CASE namespace = APPEARANCE /\ key = "color-scheme" ->
            IF u32_try_from(value).ok /\ u32_try_from(value).v <= 2
            THEN Ok ELSE Err("color-scheme must be u32 (0-2)")
      [] namespace = APPEARANCE /\ key = "accent-color" ->
            IF value_signature(value) = "(ddd)"
            THEN Ok ELSE Err("accent-color must be (f64, f64, f64) tuple")
      [] namespace = APPEARANCE /\ key = "contrast" ->
            IF u32_try_from(value).ok /\ u32_try_from(value).v <= 1
            THEN Ok ELSE Err("contrast must be u32 (0-1)")
      [] namespace = INTERFACE
           /\ key \in { "gtk-theme", "icon-theme", "cursor-theme", "font-name",
                        "monospace-font-name" } ->
            IF value_signature(value) = "s"
            THEN Ok ELSE Err(key \o " must be a string")
      [] namespace = INTERFACE /\ key = "clock-format" ->
            IF value_signature(value) = "s" /\ value.v \in { "12h", "24h" }
            THEN Ok ELSE Err("clock-format must be '12h' or '24h'")
      [] namespace = PRIVACY /\ key = "remember-recent-files" ->
            IF bool_try_from(value).ok
            THEN Ok ELSE Err("remember-recent-files must be a boolean")
      [] namespace = PRIVACY /\ key = "recent-files-max-age" ->
            IF i32_try_from(value).ok
            THEN Ok ELSE Err("recent-files-max-age must be an i32")
      [] OTHER -> Ok

validate_setting(namespace, key, value) ==
    CASE namespace = APPEARANCE /\ key = "color-scheme" ->
            IF u32_try_from(value).ok /\ u32_try_from(value).v <= 2
            THEN Ok ELSE Err("color-scheme must be u32 (0-2)")
      [] namespace = APPEARANCE /\ key = "accent-color" ->
            IF value_signature(value) = "(ddd)"
            THEN Ok ELSE Err("accent-color must be (f64, f64, f64) tuple")
      [] namespace = APPEARANCE /\ key = "contrast" ->
            IF u32_try_from(value).ok /\ u32_try_from(value).v <= 1
            THEN Ok ELSE Err("contrast must be u32 (0-1)")
      [] namespace = INTERFACE
           /\ key \in { "gtk-theme", "icon-theme", "cursor-theme", "font-name",
                        "monospace-font-name" } ->
            IF value_signature(value) = "s"
            THEN Ok ELSE Err(key \o " must be a string")
      [] namespace = INTERFACE /\ key = "clock-format" ->
            IF value_signature(value) = "s"
            THEN Ok ELSE Err("clock-format must be '12h' or '24h'")
      [] namespace = PRIVACY /\ key = "remember-recent-files" ->
            IF bool_try_from(value).ok
            THEN Ok ELSE Err("remember-recent-files must be a boolean")
      [] namespace = PRIVACY /\ key = "recent-files-max-age" ->
            IF i32_try_from(value).ok
            THEN Ok ELSE Err("recent-files-max-age must be an i32")
      [] OTHER -> Ok

(***************************************************************************)
(* tokio::sync::RwLock around the table: the tasks holding shared access,  *)
(* the tasks holding exclusive access, and the FIFO queue of waiting       *)
(* requests. The lock is fair (write-preferring): a request is granted at  *)
(* once only when nobody waits, and a release hands the lock to the head   *)
(* of the queue, all the readers up to the next writer together.           *)
(***************************************************************************)
RwLock_new == [readers |-> {}, writers |-> {}, waiters |-> << >>]

Waiter(t, mode) == [task |-> t, mode |-> mode]

\* RwLock::read: shared access, at once or queued
RwLock_read_overtaking(l, t) ==
    IF l.writers = {}
    THEN [l EXCEPT !.readers = @ \cup {t}]
    ELSE [l EXCEPT !.waiters = Append(@, Waiter(t, "read"))]

RwLock_read_with_writer(l, t) ==
    IF l.waiters = << >>
    THEN [l EXCEPT !.readers = @ \cup {t}]
    ELSE [l EXCEPT !.waiters = Append(@, Waiter(t, "read"))]

RwLock_read(l, t) ==
    IF l.writers = {} /\ l.waiters = << >>
    THEN [l EXCEPT !.readers = @ \cup {t}]
    ELSE [l EXCEPT !.waiters = Append(@, Waiter(t, "read"))]

\* RwLock::write: exclusive access, at once or queued
RwLock_write_with_writer(l, t) ==
    IF l.readers = {} /\ l.waiters = << >>
    THEN [l EXCEPT !.writers = @ \cup {t}]
    ELSE [l EXCEPT !.waiters = Append(@, Waiter(t, "write"))]

RwLock_write_with_readers(l, t) ==
    IF l.writers = {} /\ l.waiters = << >>
    THEN [l EXCEPT !.writers = @ \cup {t}]
    ELSE [l EXCEPT !.waiters = Append(@, Waiter(t, "write"))]

RwLock_write(l, t) ==
    IF l.readers = {} /\ l.writers = {} /\ l.waiters = << >>
    THEN [l EXCEPT !.writers = @ \cup {t}]
    ELSE [l EXCEPT !.waiters = Append(@, Waiter(t, "write"))]

\* the permits a release frees go to the queue in order
RECURSIVE grant_waiters(_)
grant_waiters(l) ==
    IF l.waiters = << >> \/ l.writers # {} THEN l
    ELSE IF Head(l.waiters).mode = "read"
         THEN grant_waiters([l EXCEPT !.readers = @ \cup {Head(l.waiters).task},
                                      !.waiters = Tail(@)])
         ELSE IF l.readers = {}
              THEN [l EXCEPT !.writers = {Head(l.waiters).task}, !.waiters = Tail(@)]
              ELSE l

\* dropping a guard
RwLock_release(l, t) ==
    grant_waiters([l EXCEPT !.readers = @ \ {t}, !.writers = @ \ {t}])

(***************************************************************************)
(* Storage. Every value instance is held somewhere: in an entry of the     *)
(* table, in the Option a read returned to a task, or in an entry of the   *)
(* map a read_all builds and returns. Holders that share one storage form  *)
(* a block; a holder in no block has storage of its own.                   *)
(***************************************************************************)
TableEntry(k) == [holder |-> "table", task |-> 0, k |-> k]
ResultOf(t, k) == [holder |-> "result", task |-> t, k |-> k]
EntryOf(t, k) == [holder |-> "entry", task |-> t, k |-> k]

\* the holders that share the storage of h, h among them
BlockOf(bs, h) == IF \E b \in bs : h \in b THEN CHOOSE b \in bs : h \in b ELSE {h}

\* the holders H are dropped or given new values: they leave their blocks
Drop(bs, H) == { c \in { b \ H : b \in bs } : Cardinality(c) >= 2 }

\* task t starts a call: the values its last call returned are dropped
DropTask(bs, t) == Drop(bs, { h \in UNION bs : h.task = t })

\* SettingValue::clone into the holder dst: try_clone builds a new value, which
\* shares no storage with its source
clone_storage_shared(bs, src, dst) ==
    (Drop(bs, {dst}) \ { BlockOf(Drop(bs, {dst}), src) })
        \cup { BlockOf(Drop(bs, {dst}), src) \cup {dst} }

clone_storage(bs, src, dst) == Drop(bs, {dst})

(***************************************************************************)
(* State.                                                                  *)
(***************************************************************************)
VARIABLES
    settings,   \* SettingsStore.settings: the HashMap inside the lock
    lock,       \* the RwLock around it
    pc,         \* per task: "idle", or where its call stands
    op,         \* per task: its current (or last) call and arguments
    result,     \* per task: what its last call returned
    ra_iter,    \* per task, read_all: the iterator over the table
    ra_result,  \* per task, read_all: the local `result` under construction
    request,    \* per task: the transport request whose handler made the call,
                \*           NoRequest when the caller is in-process
    reply,      \* per task: what the handler answered
    emitted,    \* the setting_changed signals emitted so far
    blocks,     \* the sets of holders that share one storage
    ncalls,     \* calls started, all tasks together
    fresh,      \* history: no write call has been made yet
    lastAcq,    \* history: per pair, the value of the last write to acquire
                \*          exclusive access (the seed before any)
    snaps       \* history, per task in read_all: the tables that existed since
                \*          the call started

vars == << settings, lock, pc, op, result, ra_iter, ra_result, request, reply,
           emitted, blocks, ncalls, fresh, lastAcq, snaps >>

NoOp == [kind |-> "none"]
NoResult == [tag |-> "NoResult"]
NoIter == [order |-> "fwd", pos |-> 0]
NoRequest == [method |-> "none"]
NoReply == [tag |-> "NoReply"]

Init ==
    /\ settings = new
    /\ lock = RwLock_new
    /\ pc = [t \in Tasks |-> "idle"]
    /\ op = [t \in Tasks |-> NoOp]
    /\ result = [t \in Tasks |-> NoResult]
    /\ ra_iter = [t \in Tasks |-> NoIter]
    /\ ra_result = [t \in Tasks |-> HashMap_new]
    /\ request = [t \in Tasks |-> NoRequest]
    /\ reply = [t \in Tasks |-> NoReply]
    /\ emitted = << >>
    /\ blocks = {}
    /\ ncalls = 0
    /\ fresh = TRUE
    /\ lastAcq = new
    /\ snaps = [t \in Tasks |-> {}]

OpKey(o) == SettingKey(o.namespace, o.key)

\* history: the writes newly granted exclusive access by a step to lock state l2,
\* with the calls as in ops
AcqAfter(l2, ops) ==
    LET granted == l2.writers \ lock.writers
    IN  IF granted = {} THEN lastAcq
        ELSE LET w == CHOOSE w \in granted : TRUE
             IN  [x \in (DOMAIN lastAcq) \cup {OpKey(ops[w])} |->
                    IF x = OpKey(ops[w]) THEN ops[w].value ELSE lastAcq[x]]

(***************************************************************************)
(* SettingsPortal, the D-Bus interface: what the Read and ReadAll handlers *)
(* answer from what the store returned.                                    *)
(***************************************************************************)
\* zbus::fdo::Error::Failed
Failed(msg) == [tag |-> "Failed", msg |-> msg]

\* Read: .map(|v| v.0).ok_or_else(|| Failed("Setting not found"))
SettingsPortal_read_reply_or_default(option) ==
    IF option.tag = "Some"
    THEN [tag |-> "Value", v |-> option.v]
    ELSE [tag |-> "Value", v |-> Str("")]

SettingsPortal_read_reply(option) ==
    IF option.tag = "Some"
    THEN [tag |-> "Value", v |-> option.v]
    ELSE Failed("Setting not found")

\* the arguments of the signal SettingChanged (setting_changed); emitting it
\* appends them to emitted. No function of the store or of the interface emits
\* it, so no action below changes emitted.
SettingChanged(namespace, key, value) ==
    [namespace |-> namespace, key |-> key, value |-> value]

\* ReadAll: the map the store returned, each SettingValue unwrapped
SettingsPortal_read_all_reply(res) ==
    [tag |-> "Dict",
     m |-> [ns \in DOMAIN res.m |-> [k \in DOMAIN res.m[ns] |-> res.m[ns][k]]]]

(***************************************************************************)
(* SettingsStore::read                                                     *)
(***************************************************************************)
\* line 103: the call starts and asks for shared access
read_acquire(t, namespace, key) ==
    /\ pc[t] = "idle"
    /\ pc' = [pc EXCEPT ![t] = "read"]
    /\ op' = [op EXCEPT ![t] = [kind |-> "read", namespace |-> namespace, key |-> key]]
    /\ result' = [result EXCEPT ![t] = NoResult]
    /\ lock' = RwLock_read(lock, t)
    /\ blocks' = DropTask(blocks, t)
    /\ lastAcq' = AcqAfter(lock', op')
    /\ UNCHANGED << settings, ra_iter, ra_result, emitted, fresh, snaps >>

\* lines 104-105: with the guard held, look the pair up, clone the value, drop
\* the guard and return
read_get_inserting_default(t) ==
    /\ pc[t] = "read"
    /\ t \in lock.readers
    /\ result' = [result EXCEPT ![t] = get_cloned(settings, OpKey(op[t]))]
    /\ blocks' = IF result'[t].tag = "Some"
                 THEN clone_storage(blocks, TableEntry(OpKey(op[t])),
                                    ResultOf(t, OpKey(op[t])))
                 ELSE blocks
    /\ reply' = IF request[t].method = "Read"
                THEN [reply EXCEPT ![t] = SettingsPortal_read_reply(result'[t])]
                ELSE reply
    /\ lock' = RwLock_release(lock, t)
    /\ pc' = [pc EXCEPT ![t] = "idle"]
    /\ lastAcq' = AcqAfter(lock', op)
    /\ settings' = IF result'[t] = None
                   THEN insert(settings, OpKey(op[t]), Str(""))
                   ELSE settings
    /\ UNCHANGED << op, ra_iter, ra_result, request, emitted, ncalls, fresh, snaps >>

read_get(t) ==
    /\ pc[t] = "read"
    /\ t \in lock.readers
    /\ result' = [result EXCEPT ![t] = get_cloned(settings, OpKey(op[t]))]
    /\ blocks' = IF result'[t].tag = "Some"
                 THEN clone_storage(blocks, TableEntry(OpKey(op[t])),
                                    ResultOf(t, OpKey(op[t])))
                 ELSE blocks
    /\ reply' = IF request[t].method = "Read"
                THEN [reply EXCEPT ![t] = SettingsPortal_read_reply(result'[t])]
                ELSE reply
    /\ lock' = RwLock_release(lock, t)
    /\ pc' = [pc EXCEPT ![t] = "idle"]
    /\ lastAcq' = AcqAfter(lock', op)
    /\ UNCHANGED << settings, op, ra_iter, ra_result, request, emitted, ncalls,
                    fresh, snaps >>

(***************************************************************************)
(* SettingsStore::read_all                                                 *)
(***************************************************************************)
\* Vec::contains
contains(vec, x) == \E i \in DOMAIN vec : vec[i] = x

\* HashMap::iter visits the entries in an order the program does not choose;
\* the model lets it be the order of PairSeq or the reverse
Reverse(seq) == [i \in DOMAIN seq |-> seq[Len(seq) + 1 - i]]
IterOrder(order) == IF order = "fwd" THEN PairSeq ELSE Reverse(PairSeq)

\* the position of the next entry the iterator yields, 0 when it is exhausted
iter_next(map, it) ==
    LET seq == IterOrder(it.order)
        rest == { i \in (it.pos + 1) .. Len(seq) : seq[i] \in DOMAIN map }
    IN  IF rest = {} THEN 0 ELSE CHOOSE i \in rest : \A j \in rest : i <= j

\* lines 113-118: the filter, and result.entry(ns).or_default().insert(key, value)
read_all_matches_nonempty_only(namespaces, k) == contains(namespaces, k.namespace)

read_all_matches(namespaces, k) == namespaces = << >> \/ contains(namespaces, k.namespace)

entry_or_default_insert(res, namespace, key, value) ==
    HashMap_insert(res, namespace,
                   HashMap_insert(IF namespace \in DOMAIN res THEN res[namespace]
                                  ELSE HashMap_new,
                                  key, value))

\* lines 108-109: the call starts, asks for shared access; result is empty
read_all_acquire(t, namespaces, order) ==
    /\ pc[t] = "idle"
    /\ pc' = [pc EXCEPT ![t] = "read_all"]
    /\ op' = [op EXCEPT ![t] = [kind |-> "read_all", namespaces |-> namespaces]]
    /\ result' = [result EXCEPT ![t] = NoResult]
    /\ ra_iter' = [ra_iter EXCEPT ![t] = [order |-> order, pos |-> 0]]
    /\ ra_result' = [ra_result EXCEPT ![t] = HashMap_new]
    /\ lock' = RwLock_read(lock, t)
    /\ blocks' = DropTask(blocks, t)
    /\ lastAcq' = AcqAfter(lock', op')
    /\ snaps' = [snaps EXCEPT ![t] = {settings}]
    /\ UNCHANGED << settings, emitted, fresh >>

\* lines 111-119: one turn of the loop, with the guard held
read_all_iter(t) ==
    /\ pc[t] = "read_all"
    /\ t \in lock.readers
    /\ iter_next(settings, ra_iter[t]) # 0
    /\ LET i == iter_next(settings, ra_iter[t])
           k == IterOrder(ra_iter[t].order)[i]
       IN  /\ ra_iter' = [ra_iter EXCEPT ![t].pos = i]
           /\ ra_result' =
                [ra_result EXCEPT ![t] =
                    IF read_all_matches(op[t].namespaces, k)
                    THEN entry_or_default_insert(@, k.namespace, k.key, clone(settings[k]))
                    ELSE @]
           /\ blocks' = IF read_all_matches(op[t].namespaces, k)
                        THEN clone_storage(blocks, TableEntry(k), EntryOf(t, k))
                        ELSE blocks
    /\ UNCHANGED << settings, lock, pc, op, result, request, reply, emitted, ncalls,
                    fresh, lastAcq, snaps >>

\* lines 121-122: the iterator is exhausted: return result, dropping the guard
read_all_return(t) ==
    /\ pc[t] = "read_all"
    /\ t \in lock.readers
    /\ iter_next(settings, ra_iter[t]) = 0
    /\ result' = [result EXCEPT ![t] = [tag |-> "Map", m |-> ra_result[t]]]
    /\ reply' = IF request[t].method = "ReadAll"
                THEN [reply EXCEPT ![t] = SettingsPortal_read_all_reply(result'[t])]
                ELSE reply
    /\ ra_result' = [ra_result EXCEPT ![t] = HashMap_new]
    /\ ra_iter' = [ra_iter EXCEPT ![t] = NoIter]
    /\ lock' = RwLock_release(lock, t)
    /\ pc' = [pc EXCEPT ![t] = "idle"]
    /\ lastAcq' = AcqAfter(lock', op)
    /\ snaps' = [snaps EXCEPT ![t] = {}]
    /\ UNCHANGED << settings, op, request, emitted, blocks, ncalls, fresh >>

(***************************************************************************)
(* SettingsStore::write                                                    *)
(***************************************************************************)
\* lines 126-128: validate; an error returns at once, otherwise ask for
\* exclusive access
write_validate_commit_first(t, namespace, key, value) ==
    /\ pc[t] = "idle"
    /\ op' = [op EXCEPT ![t] = [kind |-> "write", namespace |-> namespace,
                                key |-> key, value |-> value]]
    /\ blocks' = DropTask(blocks, t)
    /\ fresh' = FALSE
    /\ IF validate_setting(namespace, key, value) = Ok
       THEN /\ pc' = [pc EXCEPT ![t] = "write"]
            /\ result' = [result EXCEPT ![t] = NoResult]
            /\ lock' = RwLock_write(lock, t)
       ELSE /\ pc' = pc
            /\ result' = [result EXCEPT ![t] = validate_setting(namespace, key, value)]
            /\ lock' = lock
    /\ lastAcq' = AcqAfter(lock', op')
    /\ settings' = insert(settings, SettingKey(namespace, key), value)
    /\ UNCHANGED << ra_iter, ra_result, emitted, snaps >>

write_validate_ignoring_result(t, namespace, key, value) ==
    /\ pc[t] = "idle"
    /\ op' = [op EXCEPT ![t] = [kind |-> "write", namespace |-> namespace,
                                key |-> key, value |-> value]]
    /\ blocks' = DropTask(blocks, t)
    /\ fresh' = FALSE
    /\ pc' = [pc EXCEPT ![t] = "write"]
    /\ result' = [result EXCEPT ![t] = NoResult]
    /\ lock' = RwLock_write(lock, t)
    /\ lastAcq' = AcqAfter(lock', op')
    /\ UNCHANGED << settings, ra_iter, ra_result, emitted, snaps >>

write_validate(t, namespace, key, value) ==
    /\ pc[t] = "idle"
    /\ op' = [op EXCEPT ![t] = [kind |-> "write", namespace |-> namespace,
                                key |-> key, value |-> value]]
    /\ blocks' = DropTask(blocks, t)
    /\ fresh' = FALSE
    /\ IF validate_setting(namespace, key, value) = Ok
       THEN /\ pc' = [pc EXCEPT ![t] = "write"]
            /\ result' = [result EXCEPT ![t] = NoResult]
            /\ lock' = RwLock_write(lock, t)
       ELSE /\ pc' = pc
            /\ result' = [result EXCEPT ![t] = validate_setting(namespace, key, value)]
            /\ lock' = lock
    /\ lastAcq' = AcqAfter(lock', op')
    /\ UNCHANGED << settings, ra_iter, ra_result, emitted, snaps >>

\* lines 129-132: with the guard held, insert or overwrite the entry
write_insert_dropping_namespace(t) ==
    /\ pc[t] = "write"
    /\ t \in lock.writers
    /\ settings' =
          insert([x \in { y \in DOMAIN settings : y.namespace # op[t].namespace } |->
                    settings[x]],
                 OpKey(op[t]), op[t].value)
    /\ pc' = [pc EXCEPT ![t] = "write_inserted"]
    /\ blocks' = Drop(blocks, { TableEntry(OpKey(op[t])) })
    /\ snaps' = [u \in DOMAIN snaps |->
                    IF pc[u] = "read_all" THEN snaps[u] \cup {settings'} ELSE snaps[u]]
    /\ UNCHANGED << lock, op, result, ra_iter, ra_result, request, reply, emitted,
                    ncalls, fresh, lastAcq >>

write_insert(t) ==
    /\ pc[t] = "write"
    /\ t \in lock.writers
    /\ settings' = insert(settings, OpKey(op[t]), op[t].value)
    /\ pc' = [pc EXCEPT ![t] = "write_inserted"]
    /\ blocks' = Drop(blocks, { TableEntry(OpKey(op[t])) })
    /\ snaps' = [u \in DOMAIN snaps |->
                    IF pc[u] = "read_all" THEN snaps[u] \cup {settings'} ELSE snaps[u]]
    /\ UNCHANGED << lock, op, result, ra_iter, ra_result, request, reply, emitted,
                    ncalls, fresh, lastAcq >>

\* lines 133-134: Ok(()), dropping the guard
write_return(t) ==
    /\ pc[t] = "write_inserted"
    /\ result' = [result EXCEPT ![t] = Ok]
    /\ lock' = RwLock_release(lock, t)
    /\ pc' = [pc EXCEPT ![t] = "idle"]
    /\ lastAcq' = AcqAfter(lock', op)
    /\ UNCHANGED << settings, op, ra_iter, ra_result, request, reply, emitted, blocks,
                    ncalls, fresh, snaps >>

(***************************************************************************)
(* SettingsPortal::read and read_all: the handler of a transport request   *)
(* calls the store; the answer is made when the store returns (read_get,   *)
(* read_all_return).                                                       *)
(***************************************************************************)
portal_read(t, namespace, key) ==
    /\ request' = [request EXCEPT ![t] = [method |-> "Read", namespace |-> namespace,
                                          key |-> key]]
    /\ reply' = [reply EXCEPT ![t] = NoReply]
    /\ read_acquire(t, namespace, key)

portal_read_all(t, namespaces, order) ==
    /\ request' = [request EXCEPT ![t] = [method |-> "ReadAll", namespaces |-> namespaces]]
    /\ reply' = [reply EXCEPT ![t] = NoReply]
    /\ read_all_acquire(t, namespaces, order)

(***************************************************************************)
(* The interface org.freedesktop.impl.portal.Settings as the object server *)
(* serves it: a request naming one of the interface's methods runs that    *)
(* method's handler; zbus answers any other with the error UnknownMethod   *)
(* and runs nothing. (A Write method, were the interface to have one,      *)
(* would pass its arguments to SettingsStore::write.)                      *)
(***************************************************************************)
SettingsPortal_methods_with_write == { "Read", "ReadAll", "Write" }

SettingsPortal_methods == { "Read", "ReadAll" }

UnknownMethod == [tag |-> "UnknownMethod"]

\* a request no method of the interface answers
request_unknown(t, method) ==
    /\ pc[t] = "idle"
    /\ method \notin SettingsPortal_methods
    /\ request' = [request EXCEPT ![t] = [method |-> method]]
    /\ reply' = [reply EXCEPT ![t] = UnknownMethod]
    /\ UNCHANGED << settings, lock, pc, op, result, ra_iter, ra_result, emitted, blocks,
                    fresh, lastAcq, snaps >>

request_read(t, namespace, key) ==
    /\ "Read" \in SettingsPortal_methods
    /\ portal_read(t, namespace, key)

request_read_all(t, namespaces, order) ==
    /\ "ReadAll" \in SettingsPortal_methods
    /\ portal_read_all(t, namespaces, order)

request_write(t, namespace, key, value) ==
    IF "Write" \in SettingsPortal_methods
    THEN /\ request' = [request EXCEPT ![t] = [method |-> "Write"]]
         /\ reply' = [reply EXCEPT ![t] = NoReply]
         /\ write_validate(t, namespace, key, value)
    ELSE request_unknown(t, "Write")

(***************************************************************************)
(* A caller changes, in place, a value it was returned: the Option of a    *)
(* read, or the entry for pair k of the map of a read_all (SettingValue's  *)
(* field is public). Every holder that shares the storage sees the change. *)
(***************************************************************************)
\* the map m with value written through to its entries, held by task u, in block b
write_through(m, u, b, value) ==
    [ns \in DOMAIN m |->
        [key \in DOMAIN m[ns] |->
            IF EntryOf(u, SettingKey(ns, key)) \in b THEN value ELSE m[ns][key]]]

caller_mutate(t, k, value) ==
    /\ pc[t] = "idle"
    /\ \/ result[t].tag = "Some" /\ k = OpKey(op[t])
       \/ /\ result[t].tag = "Map"
          /\ k.namespace \in DOMAIN result[t].m
          /\ k.key \in DOMAIN result[t].m[k.namespace]
    /\ LET h == IF result[t].tag = "Some" THEN ResultOf(t, k) ELSE EntryOf(t, k)
           b == BlockOf(blocks, h)
       IN  /\ result' =
                [u \in DOMAIN result |->
                    IF result[u].tag = "Some"
                    THEN IF ResultOf(u, OpKey(op[u])) \in b
                         THEN Some(value) ELSE result[u]
                    ELSE IF result[u].tag = "Map"
                         THEN [tag |-> "Map", m |-> write_through(result[u].m, u, b, value)]
                         ELSE result[u]]
           /\ ra_result' =
                [u \in DOMAIN ra_result |-> write_through(ra_result[u], u, b, value)]
           /\ settings' =
                [x \in DOMAIN settings |->
                    IF TableEntry(x) \in b THEN value ELSE settings[x]]
    /\ UNCHANGED << lock, pc, op, ra_iter, request, reply, emitted, blocks, ncalls,
                    fresh, lastAcq, snaps >>

(***************************************************************************)
(* Callers. The concurrent specification: NumTasks tasks, each calling     *)
(* read, read_all and write with arguments from small sets, MaxCalls       *)
(* calls in all.                                                           *)
(***************************************************************************)
ReadInputs ==
    { SettingKey(APPEARANCE, "color-scheme"), SettingKey(CUSTOM, "color-scheme") }

FilterInputs == { << APPEARANCE, CUSTOM >> }

WriteCall(namespace, key, value) == [namespace |-> namespace, key |-> key, value |-> value]

WriteInputs ==
    { WriteCall(APPEARANCE, "color-scheme", U32(1)),
      WriteCall(APPEARANCE, "color-scheme", U32(2)),
      WriteCall(APPEARANCE, "color-scheme", U32(5)),
      WriteCall(APPEARANCE, "contrast", U32(1)),
      WriteCall(CUSTOM, "color-scheme", U32(5)) }

\* the concurrent callers' read_all iterates in the order of PairSeq
IterOrders == { "fwd" }

call_read(t) ==
    /\ ncalls < MaxCalls
    /\ ncalls' = ncalls + 1
    /\ UNCHANGED << request, reply >>
    /\ \E k \in ReadInputs : read_acquire(t, k.namespace, k.key)

call_read_all(t) ==
    /\ ncalls < MaxCalls
    /\ ncalls' = ncalls + 1
    /\ UNCHANGED << request, reply >>
    /\ \E f \in FilterInputs : \E o \in IterOrders : read_all_acquire(t, f, o)

call_write(t) ==
    /\ ncalls < MaxCalls
    /\ ncalls' = ncalls + 1
    /\ UNCHANGED << request, reply >>
    /\ \E w \in WriteInputs : write_validate(t, w.namespace, w.key, w.value)

Next ==
    \E t \in Tasks :
        \/ call_read(t)
        \/ call_read_all(t)
        \/ call_write(t)
        \/ read_get(t)
        \/ read_all_iter(t)
        \/ read_all_return(t)
        \/ write_insert(t)
        \/ write_return(t)

Spec == Init /\ [][Next]_vars

(***************************************************************************)
(* The sequential specification: one caller, one call at a time, with      *)
(* every pair and value of the model as arguments, MaxSeqCalls calls.      *)
(***************************************************************************)
SeqCaller == CHOOSE t \in Tasks : \A u \in Tasks : t <= u

SeqFilterInputs ==
    { << >>, << APPEARANCE >>, << CUSTOM >>, << PRIVACY, APPEARANCE >> }

SeqIterOrders == { "fwd", "rev" }

seq_read ==
    /\ ncalls < MaxSeqCalls
    /\ ncalls' = ncalls + 1
    /\ UNCHANGED << request, reply >>
    /\ \E k \in AllPairs : read_acquire(SeqCaller, k.namespace, k.key)

seq_read_all ==
    /\ ncalls < MaxSeqCalls
    /\ ncalls' = ncalls + 1
    /\ UNCHANGED << request, reply >>
    /\ \E f \in SeqFilterInputs : \E o \in SeqIterOrders : read_all_acquire(SeqCaller, f, o)

seq_write ==
    /\ ncalls < MaxSeqCalls
    /\ ncalls' = ncalls + 1
    /\ UNCHANGED << request, reply >>
    /\ \E k \in AllPairs : \E v \in AllValues :
          write_validate(SeqCaller, k.namespace, k.key, v)

NextSeq ==
    \/ seq_read
    \/ seq_read_all
    \/ seq_write
    \/ read_get(SeqCaller)
    \/ read_all_iter(SeqCaller)
    \/ read_all_return(SeqCaller)
    \/ write_insert(SeqCaller)
    \/ write_return(SeqCaller)

SpecSeq == Init /\ [][NextSeq]_vars

(***************************************************************************)
(* The portal specification: one request at a time. Read and ReadAll       *)
(* requests come over the transport, for every pair of the model; the      *)
(* program that owns the store (with_store, store) writes to it, values of *)
(* two types to every pair. MaxSeqCalls calls in all.                      *)
(***************************************************************************)
OwnerWriteValues == { U32(1), Str("invalid") }

svc_read ==
    /\ ncalls < MaxSeqCalls
    /\ ncalls' = ncalls + 1
    /\ \E k \in AllPairs : portal_read(SeqCaller, k.namespace, k.key)

svc_read_all ==
    /\ ncalls < MaxSeqCalls
    /\ ncalls' = ncalls + 1
    /\ \E f \in SeqFilterInputs : \E o \in SeqIterOrders : portal_read_all(SeqCaller, f, o)

owner_write ==
    /\ ncalls < MaxSeqCalls
    /\ ncalls' = ncalls + 1
    /\ request' = [request EXCEPT ![SeqCaller] = NoRequest]
    /\ reply' = [reply EXCEPT ![SeqCaller] = NoReply]
    /\ \E k \in AllPairs : \E v \in OwnerWriteValues :
          write_validate(SeqCaller, k.namespace, k.key, v)

NextPortal ==
    \/ svc_read
    \/ svc_read_all
    \/ owner_write
    \/ read_get(SeqCaller)
    \/ read_all_iter(SeqCaller)
    \/ read_all_return(SeqCaller)
    \/ write_insert(SeqCaller)
    \/ write_return(SeqCaller)

SpecPortal == Init /\ [][NextPortal]_vars

(***************************************************************************)
(* The service specification: the service process (portal_setting_cli).    *)
(* main builds the portal with SettingsPortal::new, so over a new store,   *)
(* serves it and then only waits: nothing in the process calls write.      *)
(* Clients send Read, ReadAll and Write requests, which the object server  *)
(* handles in concurrent tasks, MaxCalls requests in all. The steps of a   *)
(* write call are not among the steps of the service: no handler and no    *)
(* line of main starts one.                                                *)
(***************************************************************************)
ServiceFilterInputs == { << >>, << APPEARANCE >> }

service_read(t) ==
    /\ ncalls < MaxCalls
    /\ ncalls' = ncalls + 1
    /\ \E k \in ReadInputs : request_read(t, k.namespace, k.key)

service_read_all(t) ==
    /\ ncalls < MaxCalls
    /\ ncalls' = ncalls + 1
    /\ \E f \in ServiceFilterInputs : request_read_all(t, f, "fwd")

service_write(t) ==
    /\ ncalls < MaxCalls
    /\ ncalls' = ncalls + 1
    /\ request_write(t, APPEARANCE, "color-scheme", U32(1))

NextService ==
    \E t \in Tasks :
        \/ service_read(t)
        \/ service_read_all(t)
        \/ service_write(t)
        \/ read_get(t)
        \/ read_all_iter(t)
        \/ read_all_return(t)

SpecService == Init /\ [][NextService]_vars

(***************************************************************************)
(* The copy specification: the concurrent tasks read, read_all and write   *)
(* color-scheme, MaxCalls calls in all, and change the values they were    *)
(* returned.                                                               *)
(***************************************************************************)
MutateValues == { Str("mutated") }

copy_read(t) ==
    /\ ncalls < MaxCalls
    /\ ncalls' = ncalls + 1
    /\ UNCHANGED << request, reply >>
    /\ read_acquire(t, APPEARANCE, "color-scheme")

copy_read_all(t) ==
    /\ ncalls < MaxCalls
    /\ ncalls' = ncalls + 1
    /\ UNCHANGED << request, reply >>
    /\ read_all_acquire(t, << APPEARANCE >>, "fwd")

copy_write(t) ==
    /\ ncalls < MaxCalls
    /\ ncalls' = ncalls + 1
    /\ UNCHANGED << request, reply >>
    /\ write_validate(t, APPEARANCE, "color-scheme", U32(1))

copy_mutate(t) ==
    \E v \in MutateValues : caller_mutate(t, SettingKey(APPEARANCE, "color-scheme"), v)

NextCopy ==
    \E t \in Tasks :
        \/ copy_read(t)
        \/ copy_read_all(t)
        \/ copy_write(t)
        \/ copy_mutate(t)
        \/ read_get(t)
        \/ read_all_iter(t)
        \/ read_all_return(t)
        \/ write_insert(t)
        \/ write_return(t)

SpecCopy == Init /\ [][NextCopy]_vars

(***************************************************************************)
(* The fair specification: one task more than in the concurrent one, so    *)
(* that two readers can overlap while a writer waits. The tasks go on      *)
(* making calls for ever, with one argument each: every task reads and     *)
(* writes, and the first task calls read_all too. The tokio scheduler runs *)
(* every task that can take a step: a task whose lock request was granted  *)
(* is woken and polled (weak fairness of its steps). Nothing obliges a     *)
(* task to make a call.                                                    *)
(***************************************************************************)
FairTasks == 1 .. NumTasks + 1

InitFair ==
    /\ settings = new
    /\ lock = RwLock_new
    /\ pc = [t \in FairTasks |-> "idle"]
    /\ op = [t \in FairTasks |-> NoOp]
    /\ result = [t \in FairTasks |-> NoResult]
    /\ ra_iter = [t \in FairTasks |-> NoIter]
    /\ ra_result = [t \in FairTasks |-> HashMap_new]
    /\ request = [t \in FairTasks |-> NoRequest]
    /\ reply = [t \in FairTasks |-> NoReply]
    /\ emitted = << >>
    /\ blocks = {}
    /\ ncalls = 0
    /\ fresh = TRUE
    /\ lastAcq = new
    /\ snaps = [t \in FairTasks |-> {}]

\* every task calls read and write; the first task is the bulk reader, which
\* calls read_all too
BulkReader == CHOOSE t \in FairTasks : \A u \in FairTasks : t <= u

fair_read(t) ==
    /\ read_acquire(t, APPEARANCE, "color-scheme")
    /\ UNCHANGED << request, reply, ncalls >>

fair_read_all(t) ==
    /\ t = BulkReader
    /\ read_all_acquire(t, << APPEARANCE >>, "fwd")
    /\ UNCHANGED << request, reply, ncalls >>

fair_write(t) ==
    /\ write_validate(t, APPEARANCE, "color-scheme", U32(1))
    /\ UNCHANGED << request, reply, ncalls >>

\* the steps of a call once started
Progress(t) ==
    \/ read_get(t)
    \/ read_all_iter(t)
    \/ read_all_return(t)
    \/ write_insert(t)
    \/ write_return(t)

NextFair ==
    \E t \in FairTasks :
        \/ fair_read(t)
        \/ fair_read_all(t)
        \/ fair_write(t)
        \/ Progress(t)

SpecFair ==
    /\ InitFair
    /\ [][NextFair]_vars
    /\ \A t \in FairTasks : WF_vars(Progress(t))

(***************************************************************************)
(* What the documentation says, written from its tables, for the           *)
(* properties below.                                                       *)
(***************************************************************************)
\* the validation rule table: required type and range of each known pair
IsTripleOfDoubles(value) ==
    /\ value.tag = "Structure"
    /\ Len(value.v) = 3
    /\ \A i \in 1 .. 3 : value.v[i].tag = "F64"

MeetsRule(k, value) ==
    CASE k = SettingKey(APPEARANCE, "color-scheme") ->
            value.tag = "U32" /\ value.v \in { 0, 1, 2 }
      [] k = SettingKey(APPEARANCE, "accent-color") -> IsTripleOfDoubles(value)
      [] k = SettingKey(APPEARANCE, "contrast") ->
            value.tag = "U32" /\ value.v \in { 0, 1 }
      [] k \in { SettingKey(INTERFACE, "gtk-theme"), SettingKey(INTERFACE, "icon-theme"),
                 SettingKey(INTERFACE, "cursor-theme"), SettingKey(INTERFACE, "font-name"),
                 SettingKey(INTERFACE, "monospace-font-name"),
                 SettingKey(INTERFACE, "clock-format") } -> value.tag = "Str"
      [] k = SettingKey(PRIVACY, "remember-recent-files") -> value.tag = "Bool"
      [] k = SettingKey(PRIVACY, "recent-files-max-age") -> value.tag = "I32"
      [] OTHER -> TRUE

\* the documented default of each known pair
DocumentedDefault(k) ==
    CASE k = SettingKey(APPEARANCE, "color-scheme") -> U32(0)
      [] k = SettingKey(APPEARANCE, "accent-color") -> Structure(<< F64(0), F64(0), F64(0) >>)
      [] k = SettingKey(APPEARANCE, "contrast") -> U32(0)
      [] k = SettingKey(INTERFACE, "gtk-theme") -> Str("Adwaita")
      [] k = SettingKey(INTERFACE, "icon-theme") -> Str("Adwaita")
      [] k = SettingKey(INTERFACE, "cursor-theme") -> Str("Adwaita")
      [] k = SettingKey(INTERFACE, "font-name") -> Str("Cantarell 11")
      [] k = SettingKey(INTERFACE, "monospace-font-name") -> Str("Source Code Pro 10")
      [] k = SettingKey(INTERFACE, "clock-format") -> Str("24h")
      [] k = SettingKey(PRIVACY, "remember-recent-files") -> Bool(TRUE)
      [] k = SettingKey(PRIVACY, "recent-files-max-age") -> I32(30)

\* the entries of table s whose namespace the filter set F selects (every entry
\* when F is empty), grouped by namespace; only namespaces with an entry appear
FilteredTable(s, F) ==
    LET selected == { k \in DOMAIN s : F = {} \/ k.namespace \in F }
    IN  [n \in { k.namespace : k \in selected } |->
            [key \in { k.key : k \in { x \in selected : x.namespace = n } } |->
                s[SettingKey(n, key)]]]

FilterSet(namespaces) == { namespaces[i] : i \in DOMAIN namespaces }

Returned(t, kind) == pc[t] = "idle" /\ op[t].kind = kind

(***************************************************************************)
(* C1. In every reachable state, each known pair present in the table      *)
(* holds a value that meets that pair's validation rule (type, and range   *)
(* for color-scheme and contrast), whatever writes were accepted or        *)
(* rejected before.                                                        *)
(***************************************************************************)
C1_KnownPairsMeetRule ==
    \A k \in KnownPairs \cap DOMAIN settings : MeetsRule(k, settings[k])

\* an accepted write changed the table and a later write was rejected
C1_Witness ==
    /\ settings # new
    /\ \E t \in Tasks : Returned(t, "write") /\ result[t].tag = "Err"

(***************************************************************************)
(* C2. A write whose value fails validation returns an error in the same   *)
(* step and leaves the whole table exactly as it was, so that read gives   *)
(* the same result for every pair after the call as before it.            *)
(***************************************************************************)
C2_RejectedWriteStep ==
    /\ ncalls' = ncalls + 1
    /\ op'[SeqCaller].kind = "write"
    /\ ~MeetsRule(OpKey(op'[SeqCaller]), op'[SeqCaller].value)

C2_RejectedWriteLeavesTable ==
    [][C2_RejectedWriteStep =>
          /\ pc'[SeqCaller] = "idle"
          /\ result'[SeqCaller].tag = "Err"
          /\ settings' = settings]_vars

\* 5 written to color-scheme was rejected and color-scheme keeps the value 1 an
\* earlier write gave it
C2_Witness ==
    /\ Returned(SeqCaller, "write")
    /\ op[SeqCaller] = [kind |-> "write", namespace |-> APPEARANCE,
                        key |-> "color-scheme", value |-> U32(5)]
    /\ result[SeqCaller].tag = "Err"
    /\ settings[SettingKey(APPEARANCE, "color-scheme")] = U32(1)

(***************************************************************************)
(* C3. For a known pair, write succeeds if and only if the value meets the *)
(* rule table for the pair: a write that has returned returned Ok exactly  *)
(* when the value meets the rule and an error otherwise, and a write still *)
(* on its way to the table carries a value that meets the rule.            *)
(***************************************************************************)
C3_WriteSucceedsIffRule ==
    \A t \in Tasks :
        op[t].kind = "write" /\ OpKey(op[t]) \in KnownPairs =>
            IF MeetsRule(OpKey(op[t]), op[t].value)
            THEN pc[t] = "idle" => result[t] = Ok
            ELSE pc[t] = "idle" /\ result[t].tag = "Err"

\* a string written to color-scheme was rejected
C3_Witness ==
    \E t \in Tasks :
        /\ Returned(t, "write")
        /\ OpKey(op[t]) = SettingKey(APPEARANCE, "color-scheme")
        /\ op[t].value.tag = "Str"
        /\ result[t].tag = "Err"

(***************************************************************************)
(* C4. Write-then-read: a read of color-scheme or contrast returns a       *)
(* present value equal to the value of the latest successful write to that *)
(* key (the sequential caller's writes are the only ones, so none          *)
(* intervenes), and that value is in the key's range.                      *)
(***************************************************************************)
U32Pairs == { SettingKey(APPEARANCE, "color-scheme"), SettingKey(APPEARANCE, "contrast") }

C4_WriteThenRead ==
    \A t \in Tasks :
        Returned(t, "read") /\ OpKey(op[t]) \in U32Pairs =>
            /\ result[t] = Some(lastAcq[OpKey(op[t])])
            /\ MeetsRule(OpKey(op[t]), result[t].v)

\* color-scheme was written 2 and the read that followed returned 2
C4_Witness ==
    /\ Returned(SeqCaller, "read")
    /\ OpKey(op[SeqCaller]) = SettingKey(APPEARANCE, "color-scheme")
    /\ lastAcq[SettingKey(APPEARANCE, "color-scheme")] = U32(2)
    /\ result[SeqCaller] = Some(U32(2))

(***************************************************************************)
(* C5. Seed completeness: before any write call, the table holds exactly   *)
(* the 11 documented pairs, each with its documented default, and a read   *)
(* returns that default for a documented pair and absent for any other.    *)
(***************************************************************************)
C5_SeedComplete ==
    fresh =>
        /\ Cardinality(DOMAIN settings) = 11
        /\ \A k \in KnownPairs : get_cloned(settings, k) = Some(DocumentedDefault(k))
        /\ \A k \in UnknownPairs : get_cloned(settings, k) = None
        /\ \A t \in Tasks :
              Returned(t, "read") =>
                  result[t] = IF OpKey(op[t]) \in KnownPairs
                              THEN Some(DocumentedDefault(OpKey(op[t])))
                              ELSE None

\* on the fresh store a read of contrast returned 0
C5_Witness ==
    /\ fresh
    /\ Returned(SeqCaller, "read")
    /\ OpKey(op[SeqCaller]) = SettingKey(APPEARANCE, "contrast")
    /\ result[SeqCaller] = Some(U32(0))

(***************************************************************************)
(* C6. read_all filter semantics: the map a read_all call returned is the  *)
(* table's entries whose namespace is in the filter (all entries for the   *)
(* empty filter) grouped by namespace; a namespace without a matching      *)
(* entry is not in it, so no inner map is empty. On the fresh store the    *)
(* filter [appearance] gives that namespace alone with 3 entries and the   *)
(* empty filter gives the 3 seeded namespaces.                             *)
(***************************************************************************)
C6_ReadAllFilter ==
    \A t \in Tasks :
        Returned(t, "read_all") =>
            LET m == result[t].m
                F == FilterSet(op[t].namespaces)
            IN  /\ m = FilteredTable(settings, F)
                /\ \A n \in DOMAIN m : DOMAIN m[n] # {}
                /\ F # {} => DOMAIN m \subseteq F
                /\ fresh /\ op[t].namespaces = << APPEARANCE >> =>
                      DOMAIN m = { APPEARANCE } /\ Cardinality(DOMAIN m[APPEARANCE]) = 3
                /\ fresh /\ op[t].namespaces = << >> =>
                      DOMAIN m = { APPEARANCE, INTERFACE, PRIVACY }

\* after a write to com.example.custom/anything, read_all with that namespace as
\* filter returned the one entry
C6_Witness ==
    /\ Returned(SeqCaller, "read_all")
    /\ op[SeqCaller].namespaces = << CUSTOM >>
    /\ DOMAIN result[SeqCaller].m = { CUSTOM }
    /\ DOMAIN result[SeqCaller].m[CUSTOM] = { "anything" }

(***************************************************************************)
(* C7. Unknown-key openness: a write to a pair no rule covers never        *)
(* returns an error, whatever the type of the value, and a read of such a  *)
(* pair returns the value of the latest write to it (absent when there     *)
(* was none).                                                              *)
(***************************************************************************)
C7_UnknownKeyOpen ==
    \A t \in Tasks :
        /\ op[t].kind = "write" /\ OpKey(op[t]) \in UnknownPairs /\ pc[t] = "idle" =>
              result[t] = Ok
        /\ Returned(t, "read") /\ OpKey(op[t]) \in UnknownPairs =>
              result[t] = IF OpKey(op[t]) \in DOMAIN lastAcq
                          THEN Some(lastAcq[OpKey(op[t])])
                          ELSE None

\* a two-field structure was written to com.example.custom/color-scheme and the
\* read that followed returned it
C7_Witness ==
    /\ Returned(SeqCaller, "read")
    /\ OpKey(op[SeqCaller]) = SettingKey(CUSTOM, "color-scheme")
    /\ result[SeqCaller] = Some(Structure(<< F64(0), F64(0) >>))

(***************************************************************************)
(* C8. Concurrent write isolation: when every task has made exactly one    *)
(* call, a valid write, the keys are pairwise distinct and all the writes  *)
(* have returned, each key reads as the value its writer wrote.            *)
(***************************************************************************)
C8_AllWrote ==
    /\ ncalls = NumTasks
    /\ \A t \in Tasks : Returned(t, "write") /\ result[t] = Ok
    /\ \A t, u \in Tasks : t # u => OpKey(op[t]) # OpKey(op[u])

C8_ConcurrentWriteIsolation ==
    C8_AllWrote =>
        \A t \in Tasks : get_cloned(settings, OpKey(op[t])) = Some(op[t].value)

\* the writers of distinct keys have all returned
C8_Witness ==
    /\ C8_AllWrote
    /\ \A t \in Tasks : settings[OpKey(op[t])] = op[t].value

(***************************************************************************)
(* C9. read_all is a snapshot: the map a read_all call returns is the      *)
(* filtered content of one of the tables that existed between the start    *)
(* of the call and its return, under every interleaving with writes.       *)
(* (The result is a map, so it lists no key twice.)                        *)
(***************************************************************************)
C9_ReadAllSnapshot ==
    [][\A t \in Tasks :
          pc[t] = "read_all" /\ pc'[t] = "idle" =>
              \E s \in snaps[t] :
                  result'[t].m = FilteredTable(s, FilterSet(op[t].namespaces))]_vars

\* a read_all that started before a write changed the table has visited every
\* entry and is about to return
C9_Witness ==
    \E t \in Tasks :
        /\ pc[t] = "read_all"
        /\ t \in lock.readers
        /\ iter_next(settings, ra_iter[t]) = 0
        /\ Cardinality(snaps[t]) >= 2

(***************************************************************************)
(* C10. Writes to one key are serialized: whenever no write stands between *)
(* being granted exclusive access and its insert, every pair holds the     *)
(* value of the last write to it that was granted exclusive access (its    *)
(* seed if there was none), and a read returns that value.                 *)
(***************************************************************************)
C10_NoWriteInside == \A t \in Tasks : pc[t] = "write" => t \notin lock.writers

C10_TableIsLastAcquired == C10_NoWriteInside => settings = lastAcq

C10_ReadSeesLastAcquired ==
    \A t \in Tasks :
        pc[t] = "read" /\ pc'[t] = "idle" => result'[t] = get_cloned(lastAcq, OpKey(op[t]))

C10_SameKeyWritesSerialized ==
    [](C10_TableIsLastAcquired) /\ [][C10_ReadSeesLastAcquired]_vars

\* two tasks wrote different values to color-scheme, both have returned, and the
\* table holds the value of the one granted exclusive access last
C10_Witness ==
    \E t, u \in Tasks :
        /\ t # u
        /\ Returned(t, "write") /\ result[t] = Ok
        /\ Returned(u, "write") /\ result[u] = Ok
        /\ OpKey(op[t]) = OpKey(op[u])
        /\ op[t].value # op[u].value
        /\ settings[OpKey(op[t])] = lastAcq[OpKey(op[t])]

(***************************************************************************)
(* C11. Access discipline: at most one task holds exclusive access to the  *)
(* table; while one does, no task holds shared access; the holders of      *)
(* shared access are tasks inside read or read_all and the holder of       *)
(* exclusive access is inside write; and a step changes the table only     *)
(* when taken by the one task that holds exclusive access.                 *)
(***************************************************************************)
C11_Exclusive ==
    /\ Cardinality(lock.writers) <= 1
    /\ lock.writers # {} => lock.readers = {}
    /\ \A t \in lock.readers : pc[t] \in { "read", "read_all" }
    /\ \A t \in lock.writers : pc[t] \in { "write", "write_inserted" }

C11_MutatedUnderExclusive ==
    settings' # settings =>
        \E t \in Tasks :
            /\ lock.writers = {t}
            /\ lock.readers = {}
            /\ pc[t] = "write" /\ pc'[t] = "write_inserted"

C11_AccessDiscipline == [](C11_Exclusive) /\ [][C11_MutatedUnderExclusive]_vars

\* a write holds exclusive access and has changed the table while a read or
\* read_all that asked for shared access waits in the queue
C11_Witness ==
    \E t, u \in Tasks :
        /\ lock.writers = {t}
        /\ pc[t] = "write_inserted"
        /\ settings # new
        /\ pc[u] \in { "read", "read_all" }
        /\ u \notin lock.readers

(***************************************************************************)
(* C12. Every write that has returned success has triggered a              *)
(* setting_changed notification carrying its namespace, key and new value, *)
(* and no notification was triggered by a rejected write: every one        *)
(* emitted carries a value that passes validation.                         *)
(***************************************************************************)
C12_SuccessfulWriteNotifies ==
    /\ \A t \in Tasks :
          Returned(t, "write") /\ result[t] = Ok =>
              \E i \in DOMAIN emitted :
                  emitted[i] = SettingChanged(op[t].namespace, op[t].key, op[t].value)
    /\ \A i \in DOMAIN emitted :
          MeetsRule(SettingKey(emitted[i].namespace, emitted[i].key), emitted[i].value)

(***************************************************************************)
(* C13. No entry is ever deleted: no step removes a pair from the table,   *)
(* the 11 known pairs are present in every state, a read of a known pair   *)
(* never returns absent, and a pair for which a read returned a present    *)
(* value is in the table ever after.                                       *)
(***************************************************************************)
C13_Present ==
    /\ KnownPairs \subseteq DOMAIN settings
    /\ \A t \in Tasks :
          Returned(t, "read") =>
              /\ OpKey(op[t]) \in KnownPairs => result[t].tag = "Some"
              /\ result[t].tag = "Some" => OpKey(op[t]) \in DOMAIN settings

C13_NoEntryDeleted ==
    [](C13_Present) /\ [][DOMAIN settings \subseteq DOMAIN settings']_vars

\* a pair no rule covers was written, a read of it returned a present value, and
\* the table holds 12 pairs
C13_Witness ==
    /\ Returned(SeqCaller, "read")
    /\ OpKey(op[SeqCaller]) \in UnknownPairs
    /\ result[SeqCaller].tag = "Some"
    /\ Cardinality(DOMAIN settings) = 12

(***************************************************************************)
(* C14. No store operation hangs: under fair scheduling every started      *)
(* read, read_all and write call eventually returns, whatever calls the    *)
(* other tasks keep making.                                                *)
(***************************************************************************)
C14_EveryCallReturns ==
    \A t \in FairTasks : (pc[t] # "idle") ~> (pc[t] = "idle")

\* a write waits in the queue for exclusive access while a read_all holds shared
\* access and a read that arrived after the write waits behind it
C14_Witness ==
    \E r, w, q \in FairTasks :
        /\ pc[r] = "read_all" /\ r \in lock.readers
        /\ pc[w] = "write"
        /\ pc[q] = "read"
        /\ lock.waiters = << Waiter(w, "write"), Waiter(q, "read") >>

(***************************************************************************)
(* C15. Copy independence: no value returned by read or read_all shares    *)
(* storage with the table or with another returned value, and a step in    *)
(* which a caller changes a value it was returned changes neither the      *)
(* table (so not what a later read returns) nor what any other task holds. *)
(***************************************************************************)
C15_MutateStep(t) ==
    /\ pc[t] = "idle" /\ pc'[t] = "idle"
    /\ ncalls' = ncalls
    /\ result'[t] # result[t]

C15_MutationIsLocal ==
    \A t \in Tasks :
        C15_MutateStep(t) =>
            /\ settings' = settings
            /\ \A u \in Tasks \ {t} : result'[u] = result[u] /\ ra_result'[u] = ra_result[u]

C15_CopyIndependence == [](blocks = {}) /\ [][C15_MutationIsLocal]_vars

\* two tasks read color-scheme with no write in between, one changed the value
\* it was returned, and the other still holds the value read, as the table does
C15_Witness ==
    \E t, u \in Tasks :
        /\ t # u
        /\ fresh
        /\ Returned(t, "read") /\ Returned(u, "read")
        /\ OpKey(op[t]) = OpKey(op[u])
        /\ result[t] = Some(Str("mutated"))
        /\ result[u] = Some(U32(0))
        /\ settings[OpKey(op[u])] = U32(0)

(***************************************************************************)
(* C16. Validate-then-commit: in every interleaving, a value a read        *)
(* returned, or an entry of the map a read_all returned, meets the rule of *)
(* its pair, so it is never a value that write rejects for that pair; a    *)
(* write that waits for or holds exclusive access carries a value that     *)
(* passed validation; and every change of the table is the insert of such  *)
(* a write, which sets its pair to its value and leaves the rest (no       *)
(* value is put in and taken back).                                        *)
(***************************************************************************)
C16_NoRejectedValueSeen ==
    \A t \in Tasks :
        /\ Returned(t, "read") /\ result[t].tag = "Some" =>
              MeetsRule(OpKey(op[t]), result[t].v)
        /\ Returned(t, "read_all") =>
              \A ns \in DOMAIN result[t].m : \A key \in DOMAIN result[t].m[ns] :
                  MeetsRule(SettingKey(ns, key), result[t].m[ns][key])
        /\ ( \/ pc[t] \in { "write", "write_inserted" }
             \/ t \in lock.writers
             \/ \E i \in DOMAIN lock.waiters : lock.waiters[i] = Waiter(t, "write") ) =>
              /\ op[t].kind = "write"
              /\ MeetsRule(OpKey(op[t]), op[t].value)

C16_CommitOfValidated ==
    settings' # settings =>
        \E t \in Tasks :
            /\ pc[t] = "write"
            /\ MeetsRule(OpKey(op[t]), op[t].value)
            /\ DOMAIN settings' = DOMAIN settings \cup { OpKey(op[t]) }
            /\ \A k \in DOMAIN settings' :
                  settings'[k] = IF k = OpKey(op[t]) THEN op[t].value ELSE settings[k]

C16_ValidateThenCommit ==
    [](C16_NoRejectedValueSeen) /\ [][C16_CommitOfValidated]_vars

\* 5 written to color-scheme was rejected while a read of color-scheme held
\* shared access, and the table holds no 5 there
C16_Witness ==
    \E t, u \in Tasks :
        /\ Returned(t, "write")
        /\ OpKey(op[t]) = SettingKey(APPEARANCE, "color-scheme")
        /\ op[t].value = U32(5)
        /\ result[t].tag = "Err"
        /\ pc[u] = "read" /\ u \in lock.readers
        /\ OpKey(op[u]) = SettingKey(APPEARANCE, "color-scheme")
        /\ settings[SettingKey(APPEARANCE, "color-scheme")] # U32(5)

(***************************************************************************)
(* C17. read returns absent exactly when the pair is not one of the 11     *)
(* seeded pairs and no write to that exact pair has succeeded, so never    *)
(* for a known pair; and the transport Read request answers a present      *)
(* value with that value and an absent one with the fault "Setting not     *)
(* found", nothing else.                                                   *)
(***************************************************************************)
C17_ReadAbsentIffNeverSet ==
    \A t \in Tasks :
        Returned(t, "read") =>
            LET k == OpKey(op[t])
            IN  /\ result[t] = None <=> k \notin KnownPairs /\ k \notin DOMAIN lastAcq
                /\ k \in KnownPairs => result[t].tag = "Some"
                /\ request[t].method = "Read" =>
                      reply[t] = IF k \in DOMAIN lastAcq
                                 THEN [tag |-> "Value", v |-> lastAcq[k]]
                                 ELSE [tag |-> "Failed", msg |-> "Setting not found"]

\* after a write to com.example.custom/color-scheme succeeded, a Read request
\* for com.example.custom/anything was answered with the fault
C17_Witness ==
    /\ Returned(SeqCaller, "read")
    /\ request[SeqCaller].method = "Read"
    /\ OpKey(op[SeqCaller]) = SettingKey(CUSTOM, "anything")
    /\ SettingKey(CUSTOM, "color-scheme") \in DOMAIN settings
    /\ result[SeqCaller] = None
    /\ reply[SeqCaller].tag = "Failed"

(***************************************************************************)
(* C18. The clock-format rule checks only the type: a write of a string to *)
(* org.gnome.desktop.interface/clock-format succeeds and the table then    *)
(* holds that string, also when it is neither "12h" nor "24h"; a write of  *)
(* a value of any other type is rejected.                                  *)
(***************************************************************************)
C18_ClockFormat == SettingKey(INTERFACE, "clock-format")

C18_ClockFormatTypeOnly ==
    \A t \in Tasks :
        op[t].kind = "write" /\ OpKey(op[t]) = C18_ClockFormat =>
            IF op[t].value.tag = "Str"
            THEN pc[t] = "idle" => result[t] = Ok /\ settings[C18_ClockFormat] = op[t].value
            ELSE pc[t] = "idle" /\ result[t].tag = "Err"

\* the string "invalid" was written to clock-format: the write returned Ok and
\* the table holds "invalid"
C18_Witness ==
    /\ Returned(SeqCaller, "write")
    /\ OpKey(op[SeqCaller]) = C18_ClockFormat
    /\ op[SeqCaller].value = Str("invalid")
    /\ result[SeqCaller] = Ok
    /\ settings[C18_ClockFormat] = Str("invalid")

(***************************************************************************)
(* C19. read and read_all have no side effects: no step of a read or       *)
(* read_all call, from its start to its return, changes the table,         *)
(* whatever the arguments; a read of a missing pair creates no entry.      *)
(***************************************************************************)
C19_ReadStep == op'[SeqCaller].kind \in { "read", "read_all" }

C19_ReadsLeaveTable == [][C19_ReadStep => settings' = settings]_vars

\* after a write changed the table, a read of a pair never written returned
\* absent, and the pair is still not in the table
C19_Witness ==
    /\ Returned(SeqCaller, "read")
    /\ OpKey(op[SeqCaller]) \in UnknownPairs
    /\ result[SeqCaller] = None
    /\ OpKey(op[SeqCaller]) \notin DOMAIN settings
    /\ settings # new

(***************************************************************************)
(* C20. A successful write changes exactly one entry: its insert step sets *)
(* the entry of its (namespace, key) to its value and leaves every other   *)
(* entry as it was, other keys of the namespace and the same key name in   *)
(* another namespace included; the table gains one entry when the pair was *)
(* absent and none otherwise; and no other step of the call changes the    *)
(* table.                                                                  *)
(***************************************************************************)
C20_WriteStep == op'[SeqCaller].kind = "write"

C20_InsertStep == pc[SeqCaller] = "write" /\ pc'[SeqCaller] = "write_inserted"

C20_OneEntryChanged ==
    LET k == OpKey(op[SeqCaller])
    IN  /\ DOMAIN settings' = DOMAIN settings \cup {k}
        /\ settings'[k] = op[SeqCaller].value
        /\ \A x \in DOMAIN settings \ {k} : settings'[x] = settings[x]
        /\ Cardinality(DOMAIN settings') =
              Cardinality(DOMAIN settings) + (IF k \in DOMAIN settings THEN 0 ELSE 1)

C20_WriteChangesOneEntry ==
    [][C20_WriteStep =>
          IF C20_InsertStep THEN C20_OneEntryChanged ELSE settings' = settings]_vars

\* 3 was written to com.example.custom/color-scheme: the table has 12 entries,
\* and org.freedesktop.appearance/color-scheme and contrast hold their seeds
C20_Witness ==
    /\ Returned(SeqCaller, "write")
    /\ result[SeqCaller] = Ok
    /\ op[SeqCaller].value = U32(3)
    /\ OpKey(op[SeqCaller]) = SettingKey(CUSTOM, "color-scheme")
    /\ settings[SettingKey(CUSTOM, "color-scheme")] = U32(3)
    /\ settings[SettingKey(APPEARANCE, "color-scheme")] = U32(0)
    /\ settings[SettingKey(APPEARANCE, "contrast")] = U32(0)
    /\ Cardinality(DOMAIN settings) = 12

(***************************************************************************)
(* C21. The transport interface has no write request: in the service       *)
(* process, whatever requests clients send, the table stays the seeded     *)
(* one, every Read is answered with the documented default of its pair     *)
(* (the fault for a pair that is not seeded), every ReadAll with the       *)
(* documented defaults its filter selects, a Write request with the error  *)
(* UnknownMethod, and no change notification is emitted.                   *)
(***************************************************************************)
C21_Defaults == [k \in KnownPairs |-> DocumentedDefault(k)]

C21_ServiceAnswersDefaults ==
    /\ settings = C21_Defaults
    /\ emitted = << >>
    /\ \A t \in Tasks :
          /\ request[t].method = "Read" /\ reply[t] # NoReply =>
                reply[t] = IF OpKey(request[t]) \in KnownPairs
                           THEN [tag |-> "Value", v |-> DocumentedDefault(OpKey(request[t]))]
                           ELSE [tag |-> "Failed", msg |-> "Setting not found"]
          /\ request[t].method = "ReadAll" /\ reply[t] # NoReply =>
                reply[t] = [tag |-> "Dict",
                            m |-> FilteredTable(C21_Defaults,
                                                FilterSet(request[t].namespaces))]
          /\ request[t].method = "Write" =>
                reply[t] = UnknownMethod /\ op[t].kind # "write"

\* all the requests were made: a Write request was answered with UnknownMethod
\* and a Read of color-scheme with the default 0
C21_Witness ==
    \E t, u \in Tasks :
        /\ request[t].method = "Write"
        /\ reply[t] = UnknownMethod
        /\ request[u].method = "Read"
        /\ OpKey(request[u]) = SettingKey(APPEARANCE, "color-scheme")
        /\ reply[u] = [tag |-> "Value", v |-> U32(0)]
        /\ ncalls = MaxCalls

====
